---- MODULE Spec2Model ----
(***************************************************************************)
(* Waitlist signup widget (src/src/App.tsx; src/unnamed/part_000 is the    *)
(* same component with different styling and identical logic).             *)
(*                                                                         *)
(* Strings are sequences of character codes.  A base64 text is the         *)
(* sequence of its digits' values 0..63 (the digit alphabet is a           *)
(* bijection, and '=' is no digit).  A JavaScript value that may be        *)
(* undefined where a string may stand is Undefined; an object that may be  *)
(* null or undefined is one of the records Null, UndefinedObj.             *)
(* An operator modelling a function that can throw returns a record with   *)
(* a field threw.                                                          *)
(***************************************************************************)
EXTENDS Integers, Sequences, FiniteSets, TLC

\* ------------------------------------------------------------------ bounds
\* Number of distinct mailbox names the visitor types (a, b, ...).
NumNames == 2
\* Longest list of users found in storage at a visit.
MaxStored == 3

\* --------------------------------------------------------------- JS values
Undefined == <<-1>>
Null == [type |-> "null"]
UndefinedObj == [type |-> "undefined"]

SeqToSet(s) == {s[i] : i \in 1..Len(s)}

\* ------------------------------------------------------------------ strings
\* "<letter>@x.y": letter n in lower or upper case.
Email(n, upper) == <<(IF upper THEN 64 ELSE 96) + n, 64, 120, 46, 121>>

\* "€@x.y": passes the format check, holds a character outside Latin-1.
EuroEmail == <<8364, 64, 120, 46, 121>>

\* "a @x.y" (white space) and "a@xy" (no dot): both fail the format check.
InvalidInputs == {<<97, 32, 64, 120, 46, 121>>, <<97, 64, 120, 121>>}

Names == 1..NumNames
\* The lower-case address of every name, and "A@x.y", a case variant of "a@x.y".
LatinEmails == {Email(n, FALSE) : n \in Names} \cup {Email(1, TRUE)}
\* Everything the visitor may type into the email input.
EmailInputs == LatinEmails \cup {EuroEmail} \cup InvalidInputs

\* \s of a JavaScript regular expression (the code points used here).
IsSpace(c) == c \in {9, 10, 11, 12, 13, 32, 160, 5760, 8232, 8233, 8239, 8287, 12288, 65279}
                 \/ c \in 8192..8202

\* [^\s@]
NotSpaceAt(c) == ~IsSpace(c) /\ c # 64

\* String.prototype.toLowerCase on the Latin-1 range; other code points used
\* here have no lower-case mapping.
LowerChar(c) == IF c \in 65..90 \/ c \in 192..214 \/ c \in 216..222 THEN c + 32 ELSE c
toLowerCase(s) == [i \in 1..Len(s) |-> LowerChar(s[i])]

\* /^[^\s@]+@[^\s@]+\.[^\s@]+$/.test(email)
validateEmail(email) ==
  \E i \in 1..Len(email), j \in 1..Len(email) :
     /\ email[i] = 64
     /\ email[j] = 46
     /\ i >= 2
     /\ j >= i + 2
     /\ j <= Len(email) - 1
     /\ \A k \in 1..Len(email) : k # i => NotSpaceAt(email[k])

\* ------------------------------------------------------------------- base64
\* The byte at position i of s, 0 past the end (base64 pads the last group).
ByteAt(s, i) == IF i <= Len(s) THEN s[i] ELSE 0

\* The 24-bit value of the g-th group of three bytes.
Group24(s, g) == ByteAt(s, 3 * g - 2) * 65536 + ByteAt(s, 3 * g - 1) * 256 + ByteAt(s, 3 * g)

\* The k-th base64 digit (k from 1) of the encoding of s.
Sextet(s, k) ==
  LET g == (k - 1) \div 4 + 1
      p == (k - 1) % 4
      n == Group24(s, g)
  IN  CASE p = 0 -> n \div 262144
        [] p = 1 -> (n \div 4096) % 64
        [] p = 2 -> (n \div 64) % 64
        [] p = 3 -> n % 64

\* btoa(s) with the trailing '=' padding removed: ceil(8 * len / 6) digits.
\* btoa throws InvalidCharacterError on a code point above 255.
btoaStripped(s) ==
  IF \E i \in 1..Len(s) : s[i] > 255
  THEN [threw |-> TRUE, value |-> <<>>]
  ELSE [threw |-> FALSE, value |-> [k \in 1..((8 * Len(s) + 5) \div 6) |-> Sextet(s, k)]]

generateReferralCode(email) == btoaStripped(email)

\* A referral code nobody owns ("A"), as a visitor may put in ?ref=.
BogusCode == <<0>>

\* ------------------------------------------------------------- localStorage
\* localStorage.getItem of a key that is not set.
NullStr == <<-2>>

\* The texts the key "waitlist_users" may hold: the empty text, a text that
\* is no JSON (truncated), or the JSON text of a value.
EmptyText == [kind |-> "empty"]
TruncatedText == [kind |-> "truncated"]
JsonText(v) == [kind |-> "json", value |-> v]
NoItem == [kind |-> "null"]

\* JavaScript values a JSON text parses to.
Array(items) == [type |-> "array", items |-> items]
ObjectValue == [type |-> "object"]
NumberValue == [type |-> "number"]

\* type WaitlistUser, as built in memory: referredBy may hold undefined.
WaitlistUser(email, referralCode, referredBy, referrals) ==
  [email |-> email, referralCode |-> referralCode, referredBy |-> referredBy,
   referrals |-> referrals]

IsUserObject(u) == "email" \in DOMAIN u
\* u.referredBy: undefined when the property is absent.
referredByOf(u) == IF "referredBy" \in DOMAIN u THEN u.referredBy ELSE Undefined

\* JSON.stringify drops a property whose value is undefined.
StringifyUser(u) ==
  IF IsUserObject(u) /\ referredByOf(u) = Undefined
  THEN [email |-> u.email, referralCode |-> u.referralCode, referrals |-> u.referrals]
  ELSE u

JSONstringify(arr) == JsonText(Array([i \in 1..Len(arr.items) |-> StringifyUser(arr.items[i])]))

\* JSON.parse: throws SyntaxError on the empty and the truncated text.
JSONparse(text) ==
  IF text.kind = "json" THEN [threw |-> FALSE, value |-> text.value]
  ELSE [threw |-> TRUE, value |-> Null]

\* getWaitlist(): the parsed value of the blob, [] when the key is not set,
\* the text is empty (falsy) or JSON.parse throws.  The parsed value is
\* returned as it is, array or not.
getWaitlist(blob) ==
  IF blob.kind \in {"null", "empty"} THEN Array(<<>>)
  ELSE LET parsed == JSONparse(blob)
       IN  IF parsed.threw THEN Array(<<>>) ELSE parsed.value

\* saveWaitlist(users): the new content of the key.
saveWaitlist(users) == JSONstringify(users)

Min(S) == CHOOSE x \in S : \A y \in S : x <= y

\* findUserByEmail comparing the emails as they are written.
findUserByEmailCaseSensitive(blob, email) ==
  LET waitlist == getWaitlist(blob)
  IN  IF waitlist.type # "array" THEN [threw |-> TRUE, value |-> UndefinedObj]
      ELSE LET items == waitlist.items
               stops == {i \in 1..Len(items) :
                           ~IsUserObject(items[i]) \/ items[i].email = email}
           IN  IF stops = {} THEN [threw |-> FALSE, value |-> UndefinedObj]
               ELSE IF ~IsUserObject(items[Min(stops)])
                    THEN [threw |-> TRUE, value |-> UndefinedObj]
                    ELSE [threw |-> FALSE, value |-> items[Min(stops)]]

\* findUserByEmail lower-casing the stored email only.
findUserByEmailStoredLowered(blob, email) ==
  LET waitlist == getWaitlist(blob)
  IN  IF waitlist.type # "array" THEN [threw |-> TRUE, value |-> UndefinedObj]
      ELSE LET items == waitlist.items
               stops == {i \in 1..Len(items) :
                           ~IsUserObject(items[i]) \/ toLowerCase(items[i].email) = email}
           IN  IF stops = {} THEN [threw |-> FALSE, value |-> UndefinedObj]
               ELSE IF ~IsUserObject(items[Min(stops)])
                    THEN [threw |-> TRUE, value |-> UndefinedObj]
                    ELSE [threw |-> FALSE, value |-> items[Min(stops)]]

\* Array.prototype.find with the predicate of findUserByEmail: the predicate
\* throws TypeError on an element without an email (undefined.toLowerCase()).
findUserByEmail(blob, email) ==
  LET waitlist == getWaitlist(blob)
  IN  IF waitlist.type # "array" THEN [threw |-> TRUE, value |-> UndefinedObj]
      ELSE LET items == waitlist.items
               stops == {i \in 1..Len(items) :
                           \/ ~IsUserObject(items[i])
                           \/ toLowerCase(items[i].email) = toLowerCase(email)}
           IN  IF stops = {} THEN [threw |-> FALSE, value |-> UndefinedObj]
               ELSE IF ~IsUserObject(items[Min(stops)])
                    THEN [threw |-> TRUE, value |-> UndefinedObj]
                    ELSE [threw |-> FALSE, value |-> items[Min(stops)]]

\* The index in the array read by findUserByCode of the first element whose
\* referralCode === code, 0 when there is none.
CodeIndex(items, code) ==
  LET hits == {i \in 1..Len(items) : IsUserObject(items[i]) /\ items[i].referralCode = code}
  IN  IF hits = {} THEN 0 ELSE Min(hits)

findUserByCode(blob, code) ==
  LET waitlist == getWaitlist(blob)
  IN  IF waitlist.type # "array" THEN [threw |-> TRUE, value |-> UndefinedObj]
      ELSE LET i == CodeIndex(waitlist.items, code)
           IN  [threw |-> FALSE,
                value |-> IF i = 0 THEN UndefinedObj ELSE waitlist.items[i]]

AlreadyMsg == "This email is already on the waitlist."
InvalidMsg == "Please enter a valid email address."
\* No error: the property error is absent from the returned object.
NoError == ""

\* if (referredByCode): undefined and "" are falsy.
Truthy(str) == str # Undefined /\ str # NullStr /\ str # <<>>

\* The object findUserByCode returned, after referrals.push(email): an
\* element of the array findUserByCode parsed from storage.
PushReferral(referrer, email) ==
  [referrer EXCEPT !.referrals = Append(referrer.referrals, email)]

\* addUser saving a list of the new user alone.
WaitlistToSaveOnlyNew(waitlist, user, referrer) == Array(<<user>>)

\* The array `waitlist` of addUser at saveWaitlist(waitlist): the array parsed
\* at the top of addUser plus the new user.  The referrer whose referrals
\* addUser extends is an element of another array, the one findUserByCode
\* parsed from storage, so `waitlist` holds no object that was changed.
WaitlistToSave(waitlist, user, referrer) == Array(Append(waitlist.items, user))

\* addUser without the return in the duplicate branch: the duplicate is
\* reported and the list is extended and saved all the same.
addUserNoEarlyReturn(blob, email, referredByCode) ==
  LET waitlist == getWaitlist(blob)
      existing == findUserByEmail(blob, email)
      code == generateReferralCode(email)
      failed == [threw |-> TRUE, user |-> UndefinedObj, error |-> NoError, blob |-> blob]
  IN  IF existing.threw \/ code.threw THEN failed
      ELSE LET user == WaitlistUser(email, code.value, referredByCode, <<>>)
               saved == saveWaitlist(Array(Append(waitlist.items, user)))
           IN  IF existing.value # UndefinedObj
               THEN [threw |-> FALSE, user |-> existing.value, error |-> AlreadyMsg,
                     blob |-> saved]
               ELSE [threw |-> FALSE, user |-> user, error |-> NoError, blob |-> saved]

\* addUser crediting the referrer, in the list it saves, before it looks for
\* a duplicate.
addUserReferralFirst(blob, email, referredByCode) ==
  LET waitlist == getWaitlist(blob)
      existing == findUserByEmail(blob, email)
      code == generateReferralCode(email)
      failed == [threw |-> TRUE, user |-> UndefinedObj, error |-> NoError, blob |-> blob]
      i == IF waitlist.type = "array" /\ Truthy(referredByCode)
           THEN CodeIndex(waitlist.items, referredByCode) ELSE 0
      credited == IF i # 0 /\ email \notin SeqToSet(waitlist.items[i].referrals)
                  THEN [waitlist.items EXCEPT ![i] = PushReferral(@, email)]
                  ELSE waitlist.items
  IN  IF existing.threw THEN failed
      ELSE IF existing.value # UndefinedObj
      THEN [threw |-> FALSE, user |-> existing.value, error |-> AlreadyMsg,
            blob |-> saveWaitlist(Array(credited))]
      ELSE IF code.threw THEN failed
      ELSE LET user == WaitlistUser(email, code.value, referredByCode, <<>>)
           IN  [threw |-> FALSE, user |-> user, error |-> NoError,
                blob |-> saveWaitlist(Array(Append(credited, user)))]

\* addUser(email, referredByCode): the returned object, the content of
\* "waitlist_users" afterwards, or threw.
addUser(blob, email, referredByCode) ==
  LET waitlist == getWaitlist(blob)
      existing == findUserByEmail(blob, email)
      code == generateReferralCode(email)
      failed == [threw |-> TRUE, user |-> UndefinedObj, error |-> NoError, blob |-> blob]
  IN  IF existing.threw THEN failed
      ELSE IF existing.value # UndefinedObj
      THEN [threw |-> FALSE, user |-> existing.value, error |-> AlreadyMsg, blob |-> blob]
      ELSE IF code.threw THEN failed
      ELSE LET user == WaitlistUser(email, code.value, referredByCode, <<>>)
               found == IF Truthy(referredByCode)
                        THEN findUserByCode(blob, referredByCode).value
                        ELSE UndefinedObj
               referrer == IF found # UndefinedObj /\ email \notin SeqToSet(found.referrals)
                           THEN PushReferral(found, email)
                           ELSE found
           IN  [threw |-> FALSE, user |-> user, error |-> NoError,
                blob |-> saveWaitlist(WaitlistToSave(waitlist, user, referrer))]

getReferralCount(user) == Len(user.referrals)

\* Insert of a sort that is not stable: x goes in front of its equals.
RECURSIVE InsertBeforeEquals(_, _)
InsertBeforeEquals(sorted, x) ==
  IF sorted = <<>> THEN <<x>>
  ELSE IF Len(x.referrals) - Len(Head(sorted).referrals) >= 0
       THEN <<x>> \o sorted
       ELSE <<Head(sorted)>> \o InsertBeforeEquals(Tail(sorted), x)

\* Array.prototype.sort is stable; the comparator orders by descending
\* referral count and returns 0 on equal counts.  Insert places x behind
\* every element the comparator does not order after it.
RECURSIVE Insert(_, _)
Insert(sorted, x) ==
  IF sorted = <<>> THEN <<x>>
  ELSE IF getReferralCount(x) - getReferralCount(Head(sorted)) > 0
       THEN <<x>> \o sorted
       ELSE <<Head(sorted)>> \o Insert(Tail(sorted), x)

RECURSIVE SortPrefix(_, _)
SortPrefix(items, n) == IF n = 0 THEN <<>> ELSE Insert(SortPrefix(items, n - 1), items[n])

\* [...waitlist].sort(...)
SortedByReferrals(items) == SortPrefix(items, Len(items))

\* sorted.findIndex((u) => u.email === user.email): 0-based, -1 when absent.
findIndex(sorted, email) ==
  LET hits == {i \in 1..Len(sorted) : IsUserObject(sorted[i]) /\ sorted[i].email = email}
  IN  IF hits = {} THEN -1 ELSE Min(hits) - 1

\* getUserRank returning the index findIndex gave, without the + 1.
getUserRankZeroBased(blob, user) ==
  LET waitlist == getWaitlist(blob)
  IN  IF waitlist.type # "array" THEN [threw |-> TRUE, value |-> 0]
      ELSE IF Len(waitlist.items) >= 2
              /\ \E i \in 1..Len(waitlist.items) : ~IsUserObject(waitlist.items[i])
      THEN [threw |-> TRUE, value |-> 0]
      ELSE [threw |-> FALSE,
            value |-> findIndex(SortedByReferrals(waitlist.items), user.email)]

\* getUserRank(user).  The spread throws on a value that is not iterable, the
\* comparator on an element without referrals (it runs when there are two
\* elements or more).
getUserRank(blob, user) ==
  LET waitlist == getWaitlist(blob)
  IN  IF waitlist.type # "array" THEN [threw |-> TRUE, value |-> 0]
      ELSE IF Len(waitlist.items) >= 2
              /\ \E i \in 1..Len(waitlist.items) : ~IsUserObject(waitlist.items[i])
      THEN [threw |-> TRUE, value |-> 0]
      ELSE [threw |-> FALSE,
            value |-> findIndex(SortedByReferrals(waitlist.items), user.email) + 1]

\* ---------------------------------------------------------------- component
VARIABLES
  waitlist_users,       \* localStorage "waitlist_users": NoItem or a text
  waitlist_last_email,  \* localStorage "waitlist_last_email": NullStr or a string
  step,                 \* useState "form" | "dashboard"
  email,                \* useState, the input's text
  inputError,           \* useState, the message under the input
  user,                 \* useState WaitlistUser | null
  loading,              \* useState
  justJoined,           \* useState
  referralParam,        \* useState string | undefined
  timer,                \* the pending setTimeout callback of handleSubmit
  crashed,              \* a render or the mount effect threw: the tree is unmounted
  tabs                  \* addUser running in each of two tabs, statement by statement

vars == <<waitlist_users, waitlist_last_email, step, email, inputError, user, loading,
          justJoined, referralParam, timer, crashed, tabs>>

\* Two tabs of the same origin share localStorage.
Tabs == {1, 2}
\* No addUser is running in the tab.
IdleTab == [pc |-> "idle"]

NoTimer == [pending |-> FALSE]
\* The callback closes over the email and referralParam of the render that
\* handled the submit.
Timer(e, ref) == [pending |-> TRUE, email |-> e, referralParam |-> ref]

\* getWaitlist().length throws on null; on another non-array it is undefined.
TotalThrows(blob) == getWaitlist(blob) = Null

\* The component body: rank = user ? getUserRank(user) : null, then
\* total = getWaitlist().length.
RenderThrows(blob, u) ==
  \/ u # Null /\ getUserRank(blob, u).threw
  \/ TotalThrows(blob)

\* What ?ref= may hold: nothing (null), the empty text, a code nobody owns,
\* the referral code of "a@x.y" or of "b@x.y".
RefParams ==
  {NullStr, <<>>, BogusCode}
    \cup {generateReferralCode(Email(n, FALSE)).value : n \in Names \cap {1, 2}}

\* params.get("ref") || undefined
RefOrUndefined(raw) == IF Truthy(raw) THEN raw ELSE Undefined

\* The mount effect: the user and step it sets, or threw.
MountEffect(blob, lastEmail) ==
  IF ~Truthy(lastEmail) THEN [threw |-> FALSE, user |-> Null, step |-> "form"]
  ELSE LET existing == findUserByEmail(blob, lastEmail)
       IN  IF existing.threw THEN [threw |-> TRUE, user |-> Null, step |-> "form"]
           ELSE IF existing.value # UndefinedObj
           THEN [threw |-> FALSE, user |-> existing.value, step |-> "dashboard"]
           ELSE [threw |-> FALSE, user |-> Null, step |-> "form"]

\* A page load over the given storage: the first render with the initial
\* state, the mount effect, the render after it.  The component's state
\* afterwards.
PageLoad(blob, lastEmail, raw) ==
  LET eff == MountEffect(blob, lastEmail)
      firstThrows == RenderThrows(blob, Null)
      ran == ~firstThrows /\ ~eff.threw
  IN  [email |-> <<>>, inputError |-> "", loading |-> FALSE, justJoined |-> FALSE,
       referralParam |-> IF firstThrows THEN Undefined ELSE RefOrUndefined(raw),
       user |-> IF ran THEN eff.user ELSE Null,
       step |-> IF ran THEN eff.step ELSE "form",
       crashed |-> (firstThrows \/ eff.threw \/ RenderThrows(blob, eff.user))]

\* The visitor opens or reloads the page; timers of the previous page die.
Load(raw) ==
  LET page == PageLoad(waitlist_users, waitlist_last_email, raw)
  IN  /\ email' = page.email
      /\ inputError' = page.inputError
      /\ loading' = page.loading
      /\ justJoined' = page.justJoined
      /\ referralParam' = page.referralParam
      /\ user' = page.user
      /\ step' = page.step
      /\ crashed' = page.crashed
      /\ timer' = NoTimer
      /\ UNCHANGED <<waitlist_users, waitlist_last_email, tabs>>

\* onChange of the input (disabled while loading).
SetEmail(e) ==
  /\ ~crashed /\ step = "form" /\ ~loading
  /\ email' = e
  /\ UNCHANGED <<waitlist_users, waitlist_last_email, step, inputError, user, loading,
                 justJoined, referralParam, timer, crashed, tabs>>

\* handleSubmit without the return after the format check.
handleSubmitNoReturn ==
  /\ ~crashed /\ step = "form" /\ ~loading
  /\ inputError' = IF validateEmail(email) THEN "" ELSE InvalidMsg
  /\ loading' = TRUE
  /\ timer' = Timer(email, referralParam)
  /\ UNCHANGED <<waitlist_users, waitlist_last_email, step, email, user, justJoined,
                 referralParam, crashed, tabs>>

\* handleSubmit up to setTimeout (input and button are disabled while loading).
handleSubmit ==
  /\ ~crashed /\ step = "form" /\ ~loading
  /\ IF ~validateEmail(email)
     THEN /\ inputError' = InvalidMsg
          /\ UNCHANGED <<loading, timer>>
     ELSE /\ inputError' = ""
          /\ loading' = TRUE
          /\ timer' = Timer(email, referralParam)
  /\ UNCHANGED <<waitlist_users, waitlist_last_email, step, email, user, justJoined,
                 referralParam, crashed, tabs>>

\* The callback storing the last email before it looks at the error.
TimeoutCallbackKeyFirst ==
  /\ timer.pending
  /\ timer' = NoTimer
  /\ LET r == addUser(waitlist_users, timer.email, timer.referralParam)
     IN  /\ waitlist_users' = r.blob
         /\ IF r.threw
            THEN UNCHANGED <<waitlist_last_email, step, inputError, user, loading,
                             justJoined, crashed>>
            ELSE IF r.error # NoError
            THEN /\ inputError' = r.error
                 /\ loading' = FALSE
                 /\ waitlist_last_email' = timer.email
                 /\ crashed' = (crashed \/ RenderThrows(r.blob, user))
                 /\ UNCHANGED <<step, user, justJoined>>
            ELSE /\ user' = r.user
                 /\ step' = "dashboard"
                 /\ justJoined' = TRUE
                 /\ waitlist_last_email' = timer.email
                 /\ loading' = FALSE
                 /\ crashed' = (crashed \/ RenderThrows(r.blob, r.user))
                 /\ UNCHANGED inputError
  /\ UNCHANGED <<email, referralParam, tabs>>

\* The callback handleSubmit gave to setTimeout.  An exception of addUser
\* leaves the callback before any setState; what addUser wrote stays written.
TimeoutCallback ==
  /\ timer.pending
  /\ timer' = NoTimer
  /\ LET r == addUser(waitlist_users, timer.email, timer.referralParam)
     IN  /\ waitlist_users' = r.blob
         /\ IF r.threw
            THEN UNCHANGED <<waitlist_last_email, step, inputError, user, loading,
                             justJoined, crashed>>
            ELSE IF r.error # NoError
            THEN /\ inputError' = r.error
                 /\ loading' = FALSE
                 /\ crashed' = (crashed \/ RenderThrows(r.blob, user))
                 /\ UNCHANGED <<waitlist_last_email, step, user, justJoined>>
            ELSE /\ user' = r.user
                 /\ step' = "dashboard"
                 /\ justJoined' = TRUE
                 /\ waitlist_last_email' = timer.email
                 /\ loading' = FALSE
                 /\ crashed' = (crashed \/ RenderThrows(r.blob, r.user))
                 /\ UNCHANGED inputError
  /\ UNCHANGED <<email, referralParam, tabs>>

\* handleReset: the button of the dashboard.
handleReset ==
  /\ ~crashed /\ step = "dashboard" /\ user # Null
  /\ step' = "form"
  /\ email' = <<>>
  /\ inputError' = ""
  /\ user' = Null
  /\ justJoined' = FALSE
  /\ waitlist_last_email' = NullStr
  /\ UNCHANGED <<waitlist_users, loading, referralParam, timer, crashed, tabs>>

Next ==
  \/ \E raw \in RefParams : Load(raw)
  \/ \E e \in EmailInputs : SetEmail(e)
  \/ handleSubmit
  \/ TimeoutCallback
  \/ handleReset

\* The page has just loaded over the given storage, without ?ref=.
FirstLoad(blob, lastEmail) ==
  LET page == PageLoad(blob, lastEmail, NullStr)
  IN  /\ waitlist_users = blob
      /\ waitlist_last_email = lastEmail
      /\ email = page.email
      /\ inputError = page.inputError
      /\ loading = page.loading
      /\ justJoined = page.justJoined
      /\ referralParam = page.referralParam
      /\ user = page.user
      /\ step = page.step
      /\ crashed = page.crashed
      /\ timer = NoTimer
      /\ tabs = [t \in Tabs |-> IdleTab]

\* A first visit: nothing is stored.
Init == FirstLoad(NoItem, NullStr)

Spec == Init /\ [][Next]_vars

\* ------------------------------------------------- storage found at a visit
\* localStorage outlives the page and is written by whatever ran on the
\* origin before (another build, the developer tools, a write cut short), so
\* a page may load over any text.  The texts drawn here: the malformed ones,
\* and the lists of the users "a@x.y", "b@x.y", ... in which each user is
\* referred by nobody or by another user of the list, whose referrals hold it.

\* The lists of k users.  by[i] is the position of the user who referred the
\* i-th, 0 for nobody.
ReferredLists(k) ==
  {[i \in 1..k |->
      WaitlistUser(Email(i, FALSE),
                   generateReferralCode(Email(i, FALSE)).value,
                   IF by[i] = 0 THEN Undefined
                   ELSE generateReferralCode(Email(by[i], FALSE)).value,
                   LET js == SelectSeq([j \in 1..k |-> j], LAMBDA j : by[j] = i)
                   IN  [m \in 1..Len(js) |-> Email(js[m], FALSE)])] :
     by \in {f \in [1..k -> 0..k] : \A i \in 1..k : f[i] # i}}

WellFormedBlobs ==
  {JSONstringify(Array(l)) : l \in UNION {ReferredLists(k) : k \in 0..MaxStored}}

\* Nothing, "", a truncated text, "{}", "null", "1", "[1]".
MalformedBlobs ==
  {NoItem, EmptyText, TruncatedText, JsonText(ObjectValue), JsonText(Null),
   JsonText(NumberValue), JsonText(Array(<<NumberValue>>))}

StoredBlobs == WellFormedBlobs \cup MalformedBlobs

\* A visit over a stored text; "b@x.y" may have been the last to register.
InitStored ==
  \E blob \in StoredBlobs, lastEmail \in {NullStr, Email(2, FALSE)} :
     FirstLoad(blob, lastEmail)

SpecStored == InitStored /\ [][Next]_vars

\* ------------------------------------------------------------- two tabs
\* Two tabs of one origin run in two processes over the same localStorage:
\* each getItem and setItem is one step, and the steps of an addUser in one
\* tab interleave with those of an addUser in the other.  Each tab calls
\* addUser once.  A tab's record holds the locals of its addUser; pc is the
\* line of App.tsx it executes next.

uiVars == <<waitlist_last_email, step, email, inputError, user, loading, justJoined,
            referralParam, timer, crashed>>

\* What a tab may pass to addUser.
TabEmails == LatinEmails \cup {EuroEmail}
TabCodes == {RefOrUndefined(raw) : raw \in RefParams}

\* The number of tabs that have saved.
Saves == Cardinality({t \in Tabs : tabs[t].pc = "done" /\ tabs[t].order > 0})

\* addUser(email, referredByCode) is called in tab t.
TabCall(t, e, code) ==
  /\ tabs[t].pc = "idle"
  /\ tabs' = [tabs EXCEPT ![t] =
                [pc |-> "41", email |-> e, referredByCode |-> code,
                 waitlist |-> Array(<<>>), user |-> UndefinedObj,
                 referrer |-> UndefinedObj, error |-> NoError, threw |-> FALSE,
                 order |-> 0]]
  /\ UNCHANGED <<waitlist_users, uiVars>>

\* const waitlist = getWaitlist();
Tab41(t) ==
  /\ tabs[t].pc = "41"
  /\ tabs' = [tabs EXCEPT ![t].waitlist = getWaitlist(waitlist_users), ![t].pc = "42"]
  /\ UNCHANGED <<waitlist_users, uiVars>>

\* if (findUserByEmail(email)), and up to the next read of storage when the
\* email is not found: the code is derived, the user built and pushed.
Tab42(t) ==
  /\ tabs[t].pc = "42"
  /\ LET existing == findUserByEmail(waitlist_users, tabs[t].email)
         code == generateReferralCode(tabs[t].email)
     IN  tabs' =
           IF existing.value # UndefinedObj THEN [tabs EXCEPT ![t].pc = "43"]
           ELSE IF code.threw THEN [tabs EXCEPT ![t].threw = TRUE, ![t].pc = "done"]
           ELSE [tabs EXCEPT
                   ![t].user = WaitlistUser(tabs[t].email, code.value,
                                            tabs[t].referredByCode, <<>>),
                   ![t].pc = IF Truthy(tabs[t].referredByCode) THEN "55" ELSE "60"]
  /\ UNCHANGED <<waitlist_users, uiVars>>

\* return { user: findUserByEmail(email)!, error: ... }: storage is read again.
Tab43(t) ==
  /\ tabs[t].pc = "43"
  /\ tabs' = [tabs EXCEPT
                ![t].user = findUserByEmail(waitlist_users, tabs[t].email).value,
                ![t].error = AlreadyMsg,
                ![t].pc = "done"]
  /\ UNCHANGED <<waitlist_users, uiVars>>

\* const referrer = findUserByCode(referredByCode); and the push onto it.
Tab55(t) ==
  /\ tabs[t].pc = "55"
  /\ LET found == findUserByCode(waitlist_users, tabs[t].referredByCode).value
     IN  tabs' = [tabs EXCEPT
                    ![t].referrer =
                       IF found # UndefinedObj
                          /\ tabs[t].email \notin SeqToSet(found.referrals)
                       THEN PushReferral(found, tabs[t].email)
                       ELSE found,
                    ![t].pc = "60"]
  /\ UNCHANGED <<waitlist_users, uiVars>>

\* The save of a tab merging its user into what storage holds at that time.
Tab60Reread(t) ==
  /\ tabs[t].pc = "60"
  /\ waitlist_users' =
       saveWaitlist(WaitlistToSave(getWaitlist(waitlist_users), tabs[t].user,
                                   tabs[t].referrer))
  /\ tabs' = [tabs EXCEPT ![t].order = Saves + 1, ![t].pc = "done"]
  /\ UNCHANGED uiVars

\* saveWaitlist(waitlist); return { user };
Tab60(t) ==
  /\ tabs[t].pc = "60"
  /\ waitlist_users' =
       saveWaitlist(WaitlistToSave(tabs[t].waitlist, tabs[t].user, tabs[t].referrer))
  /\ tabs' = [tabs EXCEPT ![t].order = Saves + 1, ![t].pc = "done"]
  /\ UNCHANGED uiVars

NextTabs ==
  \/ \E t \in Tabs, e \in TabEmails, code \in TabCodes : TabCall(t, e, code)
  \/ \E t \in Tabs : Tab41(t)
  \/ \E t \in Tabs : Tab42(t)
  \/ \E t \in Tabs : Tab43(t)
  \/ \E t \in Tabs : Tab55(t)
  \/ \E t \in Tabs : Tab60(t)

SpecTabs == Init /\ [][NextTabs]_vars

\* ------------------------------------------------------------------ reading
\* The persisted waitlist, as listAll() returns it.
Users == getWaitlist(waitlist_users).items
UsersAfter == getWaitlist(waitlist_users').items

\* The callback ran addUser and addUser saved a new list.
Registered == timer.pending /\ ~timer'.pending /\ waitlist_users' # waitlist_users

\* The callback ran addUser and addUser returned the AlreadyRegistered error.
Refused ==
  /\ timer.pending /\ ~timer'.pending
  /\ inputError' = AlreadyMsg
  /\ findUserByEmail(waitlist_users, timer.email).value # UndefinedObj

\* The lower-cased text of every input.
LowerOf == [x \in EmailInputs |-> toLowerCase(x)]

\* The inputs that differ from e in letter case at most.
CaseVariants(e) == LET low == toLowerCase(e) IN {x \in EmailInputs : LowerOf[x] = low}

\* Everything the component may pass as referredByCode, and the empty text.
ReferredByCodes == {RefOrUndefined(raw) : raw \in RefParams} \cup {<<>>}

\* ------------------------------------------------------------------- claims
\* C1: registering b with the referral code of an existing user a raises
\* referralCount(a) by exactly 1 and leaves every other user's count as it
\* was; registering b again changes no count.
ReferralCountedOnce ==
  [][/\ Registered =>
          \A i \in 1..Len(Users) :
             Len(UsersAfter[i].referrals) =
               Len(Users[i].referrals)
                 + (IF i = CodeIndex(Users, timer.referralParam) THEN 1 ELSE 0)
     /\ Refused =>
          \A i \in 1..Len(Users) : Len(UsersAfter[i].referrals) = Len(Users[i].referrals)
    ]_vars

\* C2: the persisted waitlist holds at most one user per lower-cased email.
OneUserPerLowercaseEmail ==
  \A i, j \in 1..Len(Users) :
     toLowerCase(Users[i].email) = toLowerCase(Users[j].email) => i = j

\* C2 witness: "a@x.y" is on the list and a submit of "A@x.y" was refused.
CaseVariantRefused ==
  /\ inputError = AlreadyMsg
  /\ email = Email(1, TRUE)
  /\ \E i \in 1..Len(Users) : Users[i].email = Email(1, FALSE)
  /\ Len(Users) = 1

\* C3: for an email that matches an existing user in any letter case, addUser
\* returns that user's record with the AlreadyRegistered error, whatever the
\* referral code, and the stored waitlist and every record in it stay as
\* they were.
AlreadyRegisteredChangesNothing ==
  /\ [](\A i \in 1..Len(Users) :
          \A e \in CaseVariants(Users[i].email), code \in ReferredByCodes :
             LET r == addUser(waitlist_users, e, code)
             IN  /\ ~r.threw
                 /\ r.error = AlreadyMsg
                 /\ r.user = Users[i]
                 /\ r.blob = waitlist_users)
  /\ [][Refused => waitlist_users' = waitlist_users /\ UsersAfter = Users]_vars

\* C3 witness: a second user's submit of an address already on the list,
\* arriving with a referral code that resolves to the first user, was refused.
ReferredDuplicateRefused ==
  /\ inputError = AlreadyMsg
  /\ Len(Users) = 2
  /\ toLowerCase(email) = toLowerCase(Users[2].email)
  /\ referralParam = Users[1].referralCode
  /\ ~loading

\* The text is the JSON of an array of user objects.
WellFormed(blob) ==
  /\ blob.kind = "json"
  /\ blob.value.type = "array"
  /\ \A i \in 1..Len(blob.value.items) : IsUserObject(blob.value.items[i])

\* The position in the stored list of the user with this email.
Position(e) == CHOOSE i \in 1..Len(Users) : Users[i].email = e

\* rank(u) of the i-th user of the stored list.
Rank(i) == getUserRank(waitlist_users, Users[i]).value

\* C4: in the waitlist sorted for ranking, referralCount never increases,
\* users with equal referralCount keep their insertion order, and rank maps
\* the n users one to one onto 1..n, each user to its place in that order.
RankIsStableOrder ==
  WellFormed(waitlist_users) =>
    LET n == Len(Users)
        sorted == SortedByReferrals(Users)
    IN  /\ Len(sorted) = n
        /\ \A p \in 1..n, q \in 1..n :
              p < q =>
                 /\ getReferralCount(sorted[p]) >= getReferralCount(sorted[q])
                 /\ getReferralCount(sorted[p]) = getReferralCount(sorted[q])
                      => Position(sorted[p].email) < Position(sorted[q].email)
        /\ {Rank(i) : i \in 1..n} = 1..n
        /\ \A i \in 1..n : sorted[Rank(i)] = Users[i]

\* C4 witness: the dashboard shows a user who ranks above a user registered
\* before it, in a list where two users tie.
DashboardRanksAboveEarlier ==
  /\ step = "dashboard" /\ ~crashed /\ user # Null
  /\ WellFormed(waitlist_users)
  /\ \E i \in 1..Len(Users) :
        /\ Users[i].email = user.email
        /\ getUserRank(waitlist_users, user).value < i
  /\ \E i, j \in 1..Len(Users) :
        i # j /\ getReferralCount(Users[i]) = getReferralCount(Users[j])

\* The number of saved registrations that named the code of the i-th user,
\* a user of the list when they did.
Named(i) ==
  Cardinality({j \in (i + 1)..Len(Users) : referredByOf(Users[j]) = Users[i].referralCode})

\* C5: a user whose code more registrations named ranks above a user whose
\* code fewer named; after alice registers and bob registers with alice's
\* code, alice has referralCount 1, bob 0, and alice ranks above bob.
MoreReferralsRankHigher ==
  /\ \A i, j \in 1..Len(Users) : Named(i) > Named(j) => Rank(i) < Rank(j)
  /\ (/\ Len(Users) = 2
      /\ referredByOf(Users[1]) = Undefined
      /\ referredByOf(Users[2]) = Users[1].referralCode)
        => /\ getReferralCount(Users[1]) = 1
           /\ getReferralCount(Users[2]) = 0
           /\ Rank(1) < Rank(2)

RegisteredStaysFound ==
  /\ [](\A i \in 1..Len(Users) :
          \A e \in CaseVariants(Users[i].email) :
             findUserByEmail(waitlist_users, e) = [threw |-> FALSE, value |-> Users[i]])
  /\ [][/\ waitlist_users' # waitlist_users =>
              /\ Len(UsersAfter) >= Len(Users)
              /\ SubSeq(UsersAfter, 1, Len(Users)) = Users
        /\ Registered =>
              \A e \in CaseVariants(timer.email) :
                 findUserByEmail(waitlist_users', e)
                   = [threw |-> FALSE, value |-> StringifyUser(user')]
       ]_vars

\* C7 witness: "A@x.y" registered first, another user after it, and a later
\* submit of "a@x.y" found it.
CaseVariantFoundLater ==
  /\ Len(Users) = 2
  /\ Users[1].email = Email(1, TRUE)
  /\ inputError = AlreadyMsg
  /\ email = Email(1, FALSE)

\* C8: a referredBy that is set is the referralCode of another listed user.
ReferredByResolves ==
  \A i \in 1..Len(Users) :
     referredByOf(Users[i]) # Undefined =>
        \E j \in 1..Len(Users) : j # i /\ Users[j].referralCode = referredByOf(Users[i])

\* Some user object to ask the rank of.
ProbeUser ==
  WaitlistUser(Email(1, FALSE), generateReferralCode(Email(1, FALSE)).value, Undefined, <<>>)

\* C9: over a missing or malformed text getWaitlist returns the empty array,
\* and findUserByEmail, addUser and getUserRank do not throw.
MalformedReadsAsEmpty ==
  ~WellFormed(waitlist_users) =>
     /\ getWaitlist(waitlist_users) = Array(<<>>)
     /\ \A e \in LatinEmails : ~findUserByEmail(waitlist_users, e).threw
     /\ \A e \in LatinEmails, code \in ReferredByCodes :
           ~addUser(waitlist_users, e, code).threw
     /\ ~getUserRank(waitlist_users, ProbeUser).threw

\* C10: a submit of an email that fails the format check shows the message,
\* leaves both storage keys as they were, schedules no addUser, and leaves
\* the form step with loading false; addUser is only ever scheduled with an
\* email that passes the check.
InvalidSubmitRejected ==
  /\ [](timer.pending => validateEmail(timer.email))
  /\ [][(handleSubmit /\ ~validateEmail(email)) =>
           /\ inputError' = InvalidMsg
           /\ waitlist_users' = waitlist_users
           /\ waitlist_last_email' = waitlist_last_email
           /\ ~timer'.pending
           /\ step' = "form"
           /\ loading' = FALSE
       ]_vars

\* C10 witness: the message is shown over an input that fails the check,
\* with a user on the list.
InvalidMessageShown ==
  /\ inputError = InvalidMsg
  /\ ~validateEmail(email)
  /\ email # <<>>
  /\ step = "form" /\ ~loading
  /\ Len(Users) >= 1

\* Both tabs have left addUser.
BothDone == \A t \in Tabs : tabs[t].pc = "done"

\* C11: when the reads and the write of two tabs' addUser interleave, the
\* stored text after both have finished is the list the later writer saved:
\* what that tab read at its first statement plus its own new user.  (That a
\* registration reported to the earlier writer can be missing from it is the
\* state EarlierRegistrationLost.)
LastWriterWins ==
  BothDone =>
     /\ Saves = 0 => waitlist_users = NoItem
     /\ \A t \in Tabs :
           (tabs[t].order = Saves /\ Saves > 0) =>
              waitlist_users
                = JSONstringify(Array(Append(tabs[t].waitlist.items, tabs[t].user)))

\* C11 witness: both tabs returned a new user without error, and the email the
\* earlier writer registered is not in the stored list.
EarlierRegistrationLost ==
  /\ BothDone
  /\ \A t \in Tabs : tabs[t].order > 0 /\ tabs[t].error = NoError /\ ~tabs[t].threw
  /\ \E t \in Tabs :
        /\ tabs[t].order = 1
        /\ findUserByEmail(waitlist_users, tabs[t].email).value = UndefinedObj

\* The callback ran addUser and addUser returned a new user without error.
Succeeded == timer.pending /\ ~timer'.pending /\ step' = "dashboard"

\* The stored text reads as a list of users (nothing stored reads as []).
Readable(blob) == blob = NoItem \/ WellFormed(blob)

\* The referrals list `after` is `before` with items appended at its end.
AppendedTo(before, after) ==
  /\ Len(after) >= Len(before)
  /\ SubSeq(after, 1, Len(before)) = before

PageLoaded ==
  /\ timer' = NoTimer /\ ~loading' /\ ~justJoined'
  /\ email' = <<>> /\ inputError' = ""
  /\ UNCHANGED <<waitlist_users, waitlist_last_email>>
  /\ LET page == PageLoad(waitlist_users, waitlist_last_email, NullStr)
     IN  step' = page.step /\ user' = page.user /\ crashed' = page.crashed

\* C13: in a session that began with empty storage, a last-email key that is
\* present holds the email of the latest successful registration (the last
\* user of the list) and findUserByEmail resolves it; a submit that is
\* rejected as invalid or refused as already registered leaves the key as it
\* was; and a page load ends in the dashboard step exactly when the key is
\* present and resolves to a stored user.
LastEmailKeyTracksRegistration ==
  /\ [](waitlist_last_email # NullStr =>
          /\ Len(Users) >= 1
          /\ Users[Len(Users)].email = waitlist_last_email
          /\ findUserByEmail(waitlist_users, waitlist_last_email).value
               = Users[Len(Users)])
  /\ [][/\ Succeeded => waitlist_last_email' = timer.email
        /\ (Refused \/ inputError' = InvalidMsg) => UNCHANGED waitlist_last_email
        /\ PageLoaded =>
              /\ UNCHANGED waitlist_last_email
              /\ (step' = "dashboard" /\ ~crashed')
                   <=> /\ waitlist_last_email # NullStr
                       /\ findUserByEmail(waitlist_users, waitlist_last_email).value
                            # UndefinedObj
       ]_vars

\* C13 witness: two users registered in this session, the second one last,
\* and a reload has restored its dashboard from the key.
DashboardRestoredFromKey ==
  /\ Len(Users) = 2
  /\ waitlist_last_email = Users[2].email
  /\ step = "dashboard" /\ ~justJoined /\ ~crashed
  /\ user = Users[2]

\* C14: when the callback of a submit that passed the format check has run,
\* loading is false again and the component shows either the dashboard of the
\* new user or the form with an error message.
SubmitFinishes ==
  [][TimeoutCallback =>
        /\ loading' = FALSE
        /\ \/ step' = "dashboard" /\ user' # Null /\ user'.email = timer.email
           \/ step' = "form" /\ inputError' # ""
    ]_vars

\* C15: in the dashboard step the displayed user is not null and is a user
\* of the stored list, getUserRank finds it, and the rank shown lies between
\* 1 and the total shown.
DashboardRankInRange ==
  step = "dashboard" =>
     /\ user # Null
     /\ \E i \in 1..Len(Users) : Users[i] = StringifyUser(user)
     /\ ~getUserRank(waitlist_users, user).threw
     /\ getUserRank(waitlist_users, user).value >= 1
     /\ getUserRank(waitlist_users, user).value <= Len(getWaitlist(waitlist_users).items)

\* C15 witness: the dashboard of a user who has just joined as the second of
\* two, shown with rank 2 of 2.
SecondUserRankedLast ==
  /\ step = "dashboard" /\ justJoined /\ ~crashed
  /\ Len(Users) = 2
  /\ user.email = Users[2].email
  /\ getUserRank(waitlist_users, user).value = 2

====
